---- MODULE Spec2Model ----
(***************************************************************************)
(* Tactical Logistics Optimizer.                                           *)
(*                                                                         *)
(* Two parts.  The dashboard (src/frontend/dashboard.js: Store,            *)
(* APIService, UIService, App) is translated from its source.  The solver  *)
(* behind POST /optimize-routes (CapacityAssigner, RouteSequencer,         *)
(* ResultAssembler) is backend code that is not among the source files; it *)
(* is modelled from the design document (sections 3, 4.2, 4.3, 4.5).       *)
(*                                                                         *)
(* Coordinates are integer grid offsets from the depot (one cell = 1 km),  *)
(* distances are in tenths of a kilometre, weights in kilograms.           *)
(***************************************************************************)
EXTENDS Integers, Sequences, FiniteSets, Bags, TLC

(***************************************************************************)
(* Bounds of the model.                                                    *)
(***************************************************************************)
\* Longest order list handed to the solver in SolverSpec.
MaxOrders == 3
\* Largest fleet in SolverSpec.
MaxTrucks == 2
\* truck_capacity_kg: a backend configuration value, not set in the
\* dashboard's source.
Capacity == 250

(***************************************************************************)
(* Input sets.                                                             *)
(***************************************************************************)
\* CONFIG.DEPOT, the origin of the grid.
DEPOT == <<0, 0>>

\* Grid positions <<lat, lng>> of orders given to the solver: east and west
\* of the depot (opposite bearings), and the depot itself.
SolverLocs == {<<0, 1>>, <<0, -1>>, <<0, 0>>}

\* Order weights: 0 (allowed by weight_kg >= 0), two that fit a truck alone,
\* and one heavier than a truck.
SolverWeights == {0, 100, 200, 300}

OrderId(i) == <<"O", i>>

(***************************************************************************)
(* Solver: DistanceEngine (design 4.1).                                    *)
(***************************************************************************)
Isqrt(n) == CHOOSE r \in 0..n : r * r <= n /\ (r + 1) * (r + 1) > n

\* Distance between two grid positions, in tenths of a kilometre.
Distance(a, b) ==
    Isqrt(100 * ((a[1] - b[1]) * (a[1] - b[1]) + (a[2] - b[2]) * (a[2] - b[2])))

Pos(o) == <<o.lat, o.lng>>

(***************************************************************************)
(* Solver: CapacityAssigner (design 4.2).                                  *)
(***************************************************************************)
\* Direction of an order from the depot as <<east, north>>; an order at the
\* depot has angle 0 (atan2(0, 0) = 0), the direction due east.
Dir(o) ==
    IF Pos(o) = DEPOT THEN <<1, 0>> ELSE <<o.lng - DEPOT[2], o.lat - DEPOT[1]>>

\* 0 for angles in [0, 180), 1 for angles in [180, 360).
Half(d) == IF d[2] > 0 \/ (d[2] = 0 /\ d[1] > 0) THEN 0 ELSE 1

Cross(p, q) == p[1] * q[2] - p[2] * q[1]

\* Step 1: the angle of a from the depot is strictly smaller than that of b.
AngleLess(a, b) ==
    LET p == Dir(a)
        q == Dir(b)
    IN  Half(p) < Half(q) \/ (Half(p) = Half(q) /\ Cross(p, q) > 0)

RECURSIVE Insert(_, _)
Insert(s, o) ==
    IF s = <<>> THEN <<o>>
    ELSE IF AngleLess(o, Head(s)) THEN <<o>> \o s
    ELSE <<Head(s)>> \o Insert(Tail(s), o)

\* Step 1: the sweep ordering, a stable sort by angle.
RECURSIVE SweepSort(_)
SweepSort(s) ==
    IF s = <<>> THEN <<>>
    ELSE Insert(SweepSort(SubSeq(s, 1, Len(s) - 1)), s[Len(s)])

RECURSIVE SumWeights(_)
SumWeights(s) ==
    IF s = <<>> THEN 0 ELSE Head(s).weight_kg + SumWeights(Tail(s))

\* A solver without step 3.
OversizeNever(o, cap) == FALSE

\* Step 3: an order heavier than a truck can never be placed.
Oversize(o, cap) == o.weight_kg > cap

\* Step 2: the order still fits the truck being filled.
Fits(group, o, cap) == SumWeights(group) + o.weight_kg <= cap

FillInit(n) ==
    [cur |-> 1, groups |-> [t \in 1..n |-> <<>>], unassigned |-> <<>>]

\* A solver that forgets the orders it cannot place.
UnassignDropped(st, o) == st

Unassign(st, o) == [st EXCEPT !.unassigned = Append(@, o)]

\* A solver that keeps the last truck open after an order did not fit it:
\* a later, lighter order is still placed.
FillStepKeepsOpen(st, o, n, cap) ==
    IF Oversize(o, cap) THEN Unassign(st, o)
    ELSE IF Fits(st.groups[st.cur], o, cap)
         THEN [st EXCEPT !.groups[st.cur] = Append(@, o)]
    ELSE IF st.cur + 1 > n THEN Unassign(st, o)
    ELSE [st EXCEPT !.cur = st.cur + 1, !.groups[st.cur + 1] = Append(@, o)]

\* Steps 2-4 for one order of the sweep: st.cur is the truck being filled,
\* n + 1 once every truck is filled.
FillStep(st, o, n, cap) ==
    IF Oversize(o, cap) THEN Unassign(st, o)
    ELSE IF st.cur > n THEN Unassign(st, o)
    ELSE IF Fits(st.groups[st.cur], o, cap)
         THEN [st EXCEPT !.groups[st.cur] = Append(@, o)]
    ELSE IF st.cur + 1 > n
         THEN [Unassign(st, o) EXCEPT !.cur = n + 1]
    ELSE [st EXCEPT !.cur = st.cur + 1, !.groups[st.cur + 1] = Append(@, o)]

RECURSIVE Fill(_, _, _, _)
Fill(st, sorted, n, cap) ==
    IF sorted = <<>> THEN st
    ELSE Fill(FillStep(st, Head(sorted), n, cap), Tail(sorted), n, cap)

\* The partition of the orders over n trucks of capacity cap.
Assign(orders, n, cap) == Fill(FillInit(n), SweepSort(orders), n, cap)

(***************************************************************************)
(* Solver: RouteSequencer, construction step (design 4.3, step 1).         *)
(***************************************************************************)
\* Index of the stop of rem nearest to position cur; the first on a tie.
Nearest(cur, rem) ==
    CHOOSE i \in 1..Len(rem) :
        /\ \A j \in 1..Len(rem) : Distance(cur, Pos(rem[i])) <= Distance(cur, Pos(rem[j]))
        /\ \A j \in 1..(i - 1) : Distance(cur, Pos(rem[j])) > Distance(cur, Pos(rem[i]))

Without(s, i) == SubSeq(s, 1, i - 1) \o SubSeq(s, i + 1, Len(s))

RECURSIVE NearestNeighbor(_, _)
NearestNeighbor(cur, rem) ==
    IF rem = <<>> THEN <<>>
    ELSE LET i == Nearest(cur, rem)
         IN  <<rem[i]>> \o NearestNeighbor(Pos(rem[i]), Without(rem, i))

RECURSIVE PathLength(_, _)
PathLength(cur, stops) ==
    IF stops = <<>> THEN Distance(cur, DEPOT)
    ELSE Distance(cur, Pos(Head(stops))) + PathLength(Pos(Head(stops)), Tail(stops))

\* Delivery legs plus the direct return leg; 0 for a truck with no stop.
TourLength(stops) == IF stops = <<>> THEN 0 ELSE PathLength(DEPOT, stops)

(***************************************************************************)
(* Solver: RouteSequencer, improvement step (design 4.3, step 2).          *)
(***************************************************************************)
\* Accepted reversals allowed per tour: the iteration budget.
TwoOptBudget == 1

\* The tour with the segment from position i to position j reversed.
Reverse(s, i, j) ==
    SubSeq(s, 1, i - 1) \o [k \in 1..(j - i + 1) |-> s[j + 1 - k]]
                       \o SubSeq(s, j + 1, Len(s))

\* The segments <<i, j>> of a tour.
Segments(s) == {m \in (1..Len(s)) \X (1..Len(s)) : m[1] < m[2]}

\* By how much reversing segment m shortens the tour.
Gain(s, m) == TourLength(s) - TourLength(Reverse(s, m[1], m[2]))

\* A sequencer that also accepts reversals that leave the length as it is.
ImprovingOrEqual(s) == {m \in Segments(s) : Gain(s, m) >= 0}

\* The reversals that strictly reduce the tour length.
Improving(s) == {m \in Segments(s) : Gain(s, m) > 0}

LexLess(m, n) == m[1] < n[1] \/ (m[1] = n[1] /\ m[2] < n[2])

\* The reversal 2-opt accepts: the greatest reduction, and on a tie the
\* lexicographically earlier segment.
BestMove(s) ==
    CHOOSE m \in Improving(s) :
        \A n \in Improving(s) \ {m} :
            Gain(s, m) > Gain(s, n) \/ (Gain(s, m) = Gain(s, n) /\ LexLess(m, n))

TwoOptStep(s) == Reverse(s, BestMove(s)[1], BestMove(s)[2])

\* Bounded 2-opt: accepted reversals until no improving move exists or the
\* budget is used up.
RECURSIVE TwoOpt(_, _)
TwoOpt(s, budget) ==
    IF budget = 0 \/ Improving(s) = {} THEN s
    ELSE TwoOpt(TwoOptStep(s), budget - 1)

\* One truck's visiting order: construction, then improvement.
Sequence(stops) == TwoOpt(NearestNeighbor(DEPOT, stops), TwoOptBudget)

(***************************************************************************)
(* Solver: ResultAssembler (design 3 and 4.5).                             *)
(***************************************************************************)
Ids(s) == [i \in 1..Len(s) |-> s[i].id]

Route(t, stops) ==
    [route_id |-> t,
     stop_sequence |-> Ids(stops),
     truck_load |-> SumWeights(stops),
     total_distance |-> TourLength(stops)]

RECURSIVE SumDistance(_)
SumDistance(routes) ==
    IF routes = <<>> THEN 0
    ELSE Head(routes).total_distance + SumDistance(Tail(routes))

RECURSIVE KeepNonEmpty(_)
KeepNonEmpty(routes) ==
    IF routes = <<>> THEN <<>>
    ELSE IF Head(routes).stop_sequence = <<>> THEN KeepNonEmpty(Tail(routes))
    ELSE <<Head(routes)>> \o KeepNonEmpty(Tail(routes))

\* The routes of a partition, each sequenced from the depot.  A truck with
\* no stop is reported with an empty stop_sequence, or omitted: the design
\* leaves the policy to the implementation (omit).
Routes(part, n, omit) ==
    LET all == [t \in 1..n |-> Route(t, Sequence(part.groups[t]))]
    IN  IF omit THEN KeepNonEmpty(all) ELSE all

Assemble(routes, unassigned, n, cap) ==
    [routes |-> routes,
     unassigned_orders |-> unassigned,
     total_distance_km |-> SumDistance(routes),
     truck_capacity_kg |-> cap,
     num_trucks |-> n]

\* The OptimizationResult for a request.
Solve(orders, n, cap, omit) ==
    LET part == Assign(orders, n, cap)
    IN  Assemble(Routes(part, n, omit), part.unassigned, n, cap)

(***************************************************************************)
(* Dashboard: text fields.  A field's text is a sequence of one-character  *)
(* strings; <<>> is the empty field.                                       *)
(***************************************************************************)
Digit == {"0", "1", "2", "3", "4", "5", "6", "7", "8", "9"}

DigitValue(c) ==
    CASE c = "0" -> 0 [] c = "1" -> 1 [] c = "2" -> 2 [] c = "3" -> 3
      [] c = "4" -> 4 [] c = "5" -> 5 [] c = "6" -> 6 [] c = "7" -> 7
      [] c = "8" -> 8 [] c = "9" -> 9

RECURSIVE TrimStart(_)
TrimStart(s) ==
    IF s # <<>> /\ Head(s) = " " THEN TrimStart(Tail(s)) ELSE s

\* The longest prefix of s made of decimal digits.
RECURSIVE LeadingDigits(_)
LeadingDigits(s) ==
    IF s # <<>> /\ Head(s) \in Digit
    THEN <<Head(s)>> \o LeadingDigits(Tail(s))
    ELSE <<>>

RECURSIVE DecimalValue(_)
DecimalValue(ds) ==
    IF ds = <<>> THEN 0
    ELSE 10 * DecimalValue(SubSeq(ds, 1, Len(ds) - 1)) + DigitValue(ds[Len(ds)])

\* parseInt(text): leading white space is skipped, a sign is read, then
\* the decimal digits up to the first other character.  The result is
\* [nan, value]: nan when no digit was read.
ParseInt(text) ==
    LET t == TrimStart(text)
        neg == t # <<>> /\ Head(t) = "-"
        body == IF t # <<>> /\ Head(t) \in {"-", "+"} THEN Tail(t) ELSE t
        ds == LeadingDigits(body)
    IN  IF ds = <<>> THEN [nan |-> TRUE, value |-> 0]
        ELSE [nan |-> FALSE,
              value |-> IF neg THEN 0 - DecimalValue(ds) ELSE DecimalValue(ds)]

\* `x || d` for a number x: NaN and 0 are falsy.
OrNumber(x, d) == IF x.nan \/ x.value = 0 THEN d ELSE x.value

\* The fallback of App.getNumTrucks.
DefaultNumTrucks == 2

\* App.getNumTrucks: parseInt(numTrucks.value) || 2.
GetNumTrucks(field) == OrNumber(ParseInt(field), DefaultNumTrucks)

\* The fallback weight of a new stop: `value || 100`.
DefaultWeight == 100

\* NaN, the number Number() yields for a text that is no numeric literal.
\* The other numbers of the model are integers.
NaN == [nan |-> TRUE]

IsNaN(x) == ToString(x) = ToString(NaN)

\* Characters a numeric literal may hold beside digits.
NumericChar == Digit \cup {"+", "-", ".", "e", "E", " ", "x", "I", "n", "f", "i", "t", "y"}

\* Number(text), for the empty text, a text of decimal digits, and a text
\* with a character no numeric literal holds.
ToNumber(text) ==
    CASE text = <<>> -> 0
      [] text # <<>> /\ (\A i \in DOMAIN text : text[i] \in Digit) -> DecimalValue(text)
      [] \E i \in DOMAIN text : text[i] \notin NumericChar -> NaN

\* Number(weightField.value || 100): the weight of a new stop.
StopWeight(field) == IF field = <<>> THEN DefaultWeight ELSE ToNumber(field)

\* `P${n}`, `N-${n}`: the default ids of the map modal and the address form.
DefaultMapId(n) == <<"P", n>>
DefaultFormId(n) == <<"N-", n>>

\* idField.value || fallback: an empty field is falsy.
StopId(field, fallback) == IF field = <<>> THEN fallback ELSE field

(***************************************************************************)
(* Dashboard: inputs.                                                      *)
(***************************************************************************)
\* Texts of the numTrucks field: empty, non-numeric, zero, negative,
\* fractional, a number after white space.
NumTrucksInputs ==
    {<<>>, <<"a", "b">>, <<"0">>, <<"-", "1">>, <<"1", ".", "5">>, <<" ", "2">>}

\* Texts of the weight fields: empty (the fallback), and an order heavier
\* than a truck.
WeightInputs == {<<>>, <<"3", "0", "0">>}

\* Text a user types as a stop id.
TypedIds == {<<"X", 1>>}

\* Places <<lat, lng>> a user clicks, searches or is dealt at random: east
\* and west of the depot.
DashLocs == {<<0, 1>>, <<0, -1>>}

\* Places of the points PlanSpec starts from.
PlanLocs == {<<0, 1>>}

\* Weights addRandomPoints deals (the code scales 50 weights to a total of
\* 4000 to 4500 kg).
RandomWeights == {100}

Point(id, loc, w) == [id |-> id, lat |-> loc[1], lng |-> loc[2], weight_kg |-> w]

(***************************************************************************)
(* Dashboard: UIService.updateOverallStats, the capacity warning.          *)
(***************************************************************************)
Null == [null |-> TRUE]

\* `optResult?.total_distance_km` is truthy: a result with a non-zero total.
HasDistance(res) == res # Null /\ res.total_distance_km # 0

\* The warning after updateOverallStats(_, optResult, _): [hidden, count],
\* where count is the number last written into the warning's text.
UpdateOverallStats(w, res) ==
    IF HasDistance(res)
    THEN IF Len(res.unassigned_orders) > 0
         THEN [hidden |-> FALSE, count |-> Len(res.unassigned_orders)]
         ELSE [w EXCEPT !.hidden = TRUE]
    ELSE [w EXCEPT !.hidden = TRUE]

(***************************************************************************)
(* Dashboard: UIService.renderTimeline.                                    *)
(***************************************************************************)
\* renderTimeline(optResult) reads routes[0].stop_sequence: a TypeError when
\* the routes list is empty.
RenderTimelineThrows(res) == res.routes = <<>>

TypeErrorMessage == "Cannot read properties of undefined (reading 'stop_sequence')"

(***************************************************************************)
(* State.                                                                  *)
(***************************************************************************)
VARIABLES
    omitEmpty,      \* solver policy: trucks with no stop are omitted
    sOrders,        \* solver run: the request's order list
    sTrucks,        \* solver run: the request's num_trucks
    sStage,         \* solver run: "idle", "input", "rejected", "swept", "assigned", "done"
    sSorted,        \* solver run: the sweep ordering
    sPart,          \* solver run: the partition
    sResult,        \* solver run: the result, Null before "done"
    sGroup,         \* sequencer run: the stops assigned to one truck
    sNN,            \* sequencer run: the nearest-neighbour tour
    sTour,          \* sequencer run: the tour being improved
    sBudget,        \* sequencer run: accepted reversals still allowed
    sSeqStage,      \* sequencer run: "idle", "input", "constructed", "done"
    points,         \* Store.points
    isEditMode,     \* Store.isEditMode
    pendingCoords,  \* Store.pendingCoords, <<>> for null
    modalStopId,    \* text of the #modalStopId field
    addStopModal,   \* the add-stop modal is displayed
    geocoding,      \* addStopFromForm calls waiting for APIService.geocode
    inflight,       \* optimize requests waiting for their response
    optResult,      \* Store.optResult
    lsOptResult,    \* localStorage 'opt_result': <<>> or <<text>>
    warning,        \* #capacityWarning: [hidden, count]
    loader,         \* #loadingOverlay and UIService's loader fields
    toast,          \* the last toast shown: <<text, detail>>
    lsDeliveryPoints, \* localStorage 'delivery_points': <<>> or <<text>>
    markers,        \* MapService.markers: marker position by point id
    pendingAction,  \* App.pendingAction is set
    confirmModal,   \* the confirm modal is displayed
    dot,            \* classes of #ai-status-dot among 'online', 'offline'
    probes,         \* health probes waiting for their response
    lastProbe,      \* how the probe that completed last ended
    polylineDecorator, \* the page has loaded L.polylineDecorator and L.Symbol.arrowHead
    routeLayers,    \* MapService.routeLayers
    mapLayers,      \* the layers drawRoutes added that are on the map, a bag
    lastRequest     \* the optimize request generatePlan issued last, Null for none

seqVars == <<sGroup, sNN, sTour, sBudget, sSeqStage>>
solverVars == <<sOrders, sTrucks, sStage, sSorted, sPart, sResult, seqVars>>
pointVars == <<points, lsDeliveryPoints, markers>>
editVars == <<pointVars, isEditMode, pendingCoords, modalStopId, addStopModal, geocoding>>
resetVars == <<pendingAction, confirmModal>>
healthVars == <<dot, probes, lastProbe>>
modalVars == <<isEditMode, pendingCoords, modalStopId, addStopModal>>
envVars == <<omitEmpty, polylineDecorator>>
layerVars == <<routeLayers, mapLayers>>
planVars == <<inflight, optResult, lsOptResult, loader, layerVars, lastRequest>>
vars == <<envVars, solverVars, editVars, planVars, warning, toast, resetVars, healthVars>>

(***************************************************************************)
(* Dashboard: Store and UIService operations.                              *)
(***************************************************************************)
\* JSON texts.  A text is modelled by its structure with every number
\* replaced by the characters JSON.stringify writes for it: the decimal
\* digits of a finite number, null for NaN.  Strings (the ids) are written
\* and read back unchanged.
IsNull(x) == ToString(x) = ToString(Null)

JsonNumber(x) == IF IsNaN(x) \/ IsNull(x) THEN "null" ELSE ToString(x)

\* Largest magnitude of a number in a stored text.
MaxJsonNumber == 1000

\* JSON.parse of a number's characters, or of null.
ParseNumber(text) ==
    IF text = "null" THEN Null
    ELSE IF \E n \in 0..MaxJsonNumber : ToString(n) = text
         THEN CHOOSE n \in 0..MaxJsonNumber : ToString(n) = text
         ELSE CHOOSE n \in -MaxJsonNumber..-1 : ToString(n) = text

StringifyPoint(p) ==
    [id |-> p.id, lat |-> JsonNumber(p.lat), lng |-> JsonNumber(p.lng),
     weight_kg |-> JsonNumber(p.weight_kg)]

ParsePoint(j) ==
    [id |-> j.id, lat |-> ParseNumber(j.lat), lng |-> ParseNumber(j.lng),
     weight_kg |-> ParseNumber(j.weight_kg)]

\* JSON.stringify(this.points) and JSON.parse of it.
StringifyPoints(pts) == [json |-> [i \in DOMAIN pts |-> StringifyPoint(pts[i])]]

ParsePoints(text) == [i \in DOMAIN text.json |-> ParsePoint(text.json[i])]

StringifyRoute(r) ==
    [route_id |-> JsonNumber(r.route_id),
     stop_sequence |-> r.stop_sequence,
     truck_load |-> JsonNumber(r.truck_load),
     total_distance |-> JsonNumber(r.total_distance)]

ParseRoute(j) ==
    [route_id |-> ParseNumber(j.route_id),
     stop_sequence |-> j.stop_sequence,
     truck_load |-> ParseNumber(j.truck_load),
     total_distance |-> ParseNumber(j.total_distance)]

\* JSON.stringify of a result and JSON.parse of it.
Stringify(res) ==
    [json |->
       [routes |-> [i \in DOMAIN res.routes |-> StringifyRoute(res.routes[i])],
        unassigned_orders |-> StringifyPoints(res.unassigned_orders).json,
        total_distance_km |-> JsonNumber(res.total_distance_km),
        truck_capacity_kg |-> JsonNumber(res.truck_capacity_kg),
        num_trucks |-> JsonNumber(res.num_trucks)]]

Parse(text) ==
    [routes |-> [i \in DOMAIN text.json.routes |-> ParseRoute(text.json.routes[i])],
     unassigned_orders |-> ParsePoints([json |-> text.json.unassigned_orders]),
     total_distance_km |-> ParseNumber(text.json.total_distance_km),
     truck_capacity_kg |-> ParseNumber(text.json.truck_capacity_kg),
     num_trucks |-> ParseNumber(text.json.num_trucks)]

\* Store.loadPoints, Store.loadOptResult: what a Store constructed on this
\* storage holds.
LoadPoints(ls) == IF ls = <<>> THEN <<>> ELSE ParsePoints(ls[1])

LoadOptResult(ls) == IF ls = <<>> THEN Null ELSE Parse(ls[1])

\* updateMarkers without its first loop: no marker is removed.
UpdateMarkersKeepsStale(m, pts) ==
    LET currentIds == {pts[i].id : i \in DOMAIN pts}
        First(id) == CHOOSE i \in DOMAIN pts :
                        pts[i].id = id /\ \A k \in 1..(i - 1) : pts[k].id # id
    IN  [id \in currentIds \cup DOMAIN m |->
            IF id \in DOMAIN m THEN m[id]
            ELSE <<pts[First(id)].lat, pts[First(id)].lng>>]

\* MapService.updateMarkers(pts): markers whose id no point carries are
\* removed, a point whose id has no marker gets one at its position, the
\* other markers stay where they are.
UpdateMarkers(m, pts) ==
    LET currentIds == {pts[i].id : i \in DOMAIN pts}
        First(id) == CHOOSE i \in DOMAIN pts :
                        pts[i].id = id /\ \A k \in 1..(i - 1) : pts[k].id # id
    IN  [id \in currentIds |->
            IF id \in DOMAIN m THEN m[id]
            ELSE <<pts[First(id)].lat, pts[First(id)].lng>>]

\* The loader: display is the overlay's style.display, interval says that
\* loaderInterval is set, intervals counts the text-cycling intervals that
\* were created and not cleared, hideTimeout says that loaderHideTimeout
\* names a timeout still to fire, and staleTimeouts counts the timeouts still
\* to fire that loaderHideTimeout no longer names.  The transitionend
\* listener that hideLoader registers beside the timeout runs the same
\* callback.
LoaderClosed ==
    [display |-> "none", interval |-> FALSE, intervals |-> 0, hideTimeout |-> FALSE,
     staleTimeouts |-> 0]

\* showLoader without `if (this.loaderInterval) clearInterval(...)`.
ShowLoaderKeepsInterval(l) ==
    [l EXCEPT !.display = "flex", !.interval = TRUE, !.intervals = @ + 1,
              !.hideTimeout = FALSE]

\* UIService.showLoader: the timeout loaderHideTimeout names is cleared, the
\* overlay is displayed, the interval loaderInterval names is cleared and a
\* new text-cycling interval is started.
ShowLoader(l) ==
    [l EXCEPT !.display = "flex", !.interval = TRUE,
              !.intervals = (IF l.interval THEN @ - 1 ELSE @) + 1,
              !.hideTimeout = FALSE]

\* UIService.hideLoader: setTimeout(finish, 300) replaces loaderHideTimeout,
\* the interval is cleared.
HideLoader(l) ==
    [l EXCEPT !.interval = FALSE,
              !.intervals = IF l.interval THEN @ - 1 ELSE @,
              !.hideTimeout = TRUE,
              !.staleTimeouts = IF l.hideTimeout THEN @ + 1 ELSE @]

NoToast == <<"", <<>>>>
ToastAddPointsFirst == <<"Add points first!", <<>>>>
ToastComplete == <<"Optimization Complete!", <<>>>>
ToastFailed(message) == <<"Optimization Failed", message>>

(***************************************************************************)
(* Dashboard: adding and removing stops (App).                             *)
(***************************************************************************)
\* Longest point list.
MaxPoints == 2
\* addStopFromForm calls that may wait for the geocoder at once.
MaxGeocoding == 1
\* Points one addRandomPoints call adds (the code adds 50).
RandomCount == 1

\* Store.savePoints, after the change of this.points.
SavePoints == lsDeliveryPoints' = <<StringifyPoints(points')>>

\* Store.addPoint.
AddPoint(point) ==
    /\ points' = Append(points, point)
    /\ SavePoints

ToggleEditMode ==
    /\ isEditMode' = ~isEditMode
    /\ UNCHANGED <<envVars, resetVars, healthVars, solverVars, pointVars, pendingCoords, modalStopId,
                   addStopModal, geocoding, planVars, warning, toast>>

HandleMapClick(loc) ==
    /\ IF ~isEditMode
       THEN UNCHANGED <<pendingCoords, modalStopId, addStopModal>>
       ELSE /\ pendingCoords' = loc
            /\ modalStopId' = DefaultMapId(Len(points) + 1)
            /\ addStopModal' = TRUE
    /\ UNCHANGED <<envVars, resetVars, healthVars, solverVars, pointVars, isEditMode, geocoding,
                   planVars, warning, toast>>

\* The user edits the id the modal proposes.
EditModalStopId(text) ==
    /\ addStopModal
    /\ modalStopId' = text
    /\ UNCHANGED <<envVars, resetVars, healthVars, solverVars, pointVars, isEditMode, pendingCoords,
                   addStopModal, geocoding, planVars, warning, toast>>

\* modalCancel: UIService.hideModal('addStopModal').
ModalCancel ==
    /\ addStopModal
    /\ addStopModal' = FALSE
    /\ UNCHANGED <<envVars, resetVars, healthVars, solverVars, pointVars, isEditMode, pendingCoords,
                   modalStopId, geocoding, planVars, warning, toast>>

\* confirmAddStopModal without `this.store.pendingCoords = null`.
ConfirmAddStopModalKeepsPending(weightField) ==
    /\ Len(points) < MaxPoints
    /\ IF pendingCoords = <<>>
       THEN UNCHANGED <<pointVars, pendingCoords, addStopModal, warning, toast>>
       ELSE LET id == StopId(modalStopId, DefaultMapId(Len(points) + 1))
            IN  /\ AddPoint(Point(id, pendingCoords, StopWeight(weightField)))
                /\ markers' = UpdateMarkers(markers, points')
                /\ warning' = UpdateOverallStats(warning, optResult)
                /\ addStopModal' = FALSE
                /\ pendingCoords' = pendingCoords
                /\ toast' = <<"Added stop", id>>
    /\ UNCHANGED <<envVars, resetVars, healthVars, solverVars, isEditMode, modalStopId, geocoding, planVars>>

ConfirmAddStopModal(weightField) ==
    /\ Len(points) < MaxPoints
    /\ IF pendingCoords = <<>>
       THEN UNCHANGED <<pointVars, pendingCoords, addStopModal, warning, toast>>
       ELSE LET id == StopId(modalStopId, DefaultMapId(Len(points) + 1))
            IN  /\ AddPoint(Point(id, pendingCoords, StopWeight(weightField)))
                /\ markers' = UpdateMarkers(markers, points')
                /\ warning' = UpdateOverallStats(warning, optResult)
                /\ addStopModal' = FALSE
                /\ pendingCoords' = <<>>
                /\ toast' = <<"Added stop", id>>
    /\ UNCHANGED <<envVars, resetVars, healthVars, solverVars, isEditMode, modalStopId, geocoding, planVars>>

\* App.addStopFromForm with coordinates already in the address field's
\* dataset (after searchAddress): no wait.
AddStopFromFormCached(idField, weightField, loc) ==
    /\ Len(points) < MaxPoints
    /\ AddPoint(Point(StopId(idField, DefaultFormId(Len(points) + 1)), loc,
                      StopWeight(weightField)))
    /\ markers' = UpdateMarkers(markers, points')
    /\ warning' = UpdateOverallStats(warning, optResult)
    /\ UNCHANGED <<envVars, resetVars, healthVars, solverVars, modalVars, geocoding, planVars, toast>>

\* App.addStopFromForm up to `await APIService.geocode(...)`: the id and
\* the weight are read before the wait.
AddStopFromFormGeocode(idField, weightField) ==
    /\ Len(geocoding) < MaxGeocoding
    /\ geocoding' = Append(geocoding,
                       [id |-> StopId(idField, DefaultFormId(Len(points) + 1)),
                        weight_kg |-> StopWeight(weightField)])
    /\ UNCHANGED <<envVars, resetVars, healthVars, solverVars, pointVars, modalVars, planVars, warning, toast>>

\* App.addStopFromForm after the geocoder answered with a place.
GeocodeResolved(k, loc) ==
    /\ k \in DOMAIN geocoding
    /\ Len(points) < MaxPoints
    /\ AddPoint(Point(geocoding[k].id, loc, geocoding[k].weight_kg))
    /\ markers' = UpdateMarkers(markers, points')
    /\ warning' = UpdateOverallStats(warning, optResult)
    /\ geocoding' = Without(geocoding, k)
    /\ UNCHANGED <<envVars, resetVars, healthVars, solverVars, modalVars, planVars, toast>>

\* App.addStopFromForm after the geocoder failed.
GeocodeRejected(k) ==
    /\ k \in DOMAIN geocoding
    /\ geocoding' = Without(geocoding, k)
    /\ toast' = <<"Location not found", <<>>>>
    /\ UNCHANGED <<envVars, resetVars, healthVars, solverVars, pointVars, modalVars, planVars, warning>>

\* The lists addRandomPoints can build from pts by adding n points, each
\* with the id `P${points.length + 1}` of the moment it is added.
RECURSIVE RandomExtensions(_, _)
RandomExtensions(pts, n) ==
    IF n = 0 THEN {pts}
    ELSE UNION {RandomExtensions(Append(pts, Point(DefaultMapId(Len(pts) + 1), l, w)), n - 1) :
                   l \in DashLocs, w \in RandomWeights}

AddRandomPoints ==
    /\ Len(points) + RandomCount <= MaxPoints
    /\ points' \in RandomExtensions(points, RandomCount)
    /\ SavePoints
    /\ markers' = UpdateMarkers(markers, points')
    /\ warning' = UpdateOverallStats(warning, optResult)
    /\ toast' = <<"Added 50 points around Nashville!", <<>>>>
    /\ UNCHANGED <<envVars, resetVars, healthVars, solverVars, modalVars, geocoding, planVars>>

\* Store.removePoint: points.splice(index, 1), idx counted from 0; nothing
\* is removed when idx is past the end.
RemovePoint(pts, idx) ==
    IF idx >= Len(pts) THEN pts
    ELSE SubSeq(pts, 1, idx) \o SubSeq(pts, idx + 2, Len(pts))

RemoveStop(idx) ==
    /\ points' = RemovePoint(points, idx)
    /\ SavePoints
    /\ markers' = UpdateMarkers(markers, points')
    /\ warning' = UpdateOverallStats(warning, optResult)
    /\ UNCHANGED <<envVars, resetVars, healthVars, solverVars, modalVars, geocoding, planVars, toast>>

(***************************************************************************)
(* Dashboard: the route layers of the map (MapService).                    *)
(***************************************************************************)
\* A layer drawRoutes creates for a route: its kind, the route's id and, for
\* a numbered stop marker, the position of the stop in stop_sequence.
Layer(kind, r, n) == [kind |-> kind, route |-> r.route_id, stop |-> n]

\* The elements of a list as a bag.
SeqToBag(list) ==
    [l \in {list[i] : i \in DOMAIN list} |->
        Cardinality({i \in DOMAIN list : list[i] = l})]

\* The numbered stop markers of a route: one for each id of stop_sequence
\* that points.find finds.
StopMarkers(r, pts) ==
    LET found(n) == \E i \in DOMAIN pts : pts[i].id = r.stop_sequence[n]
        positions == SelectSeq([n \in DOMAIN r.stop_sequence |-> n], found)
    IN  [j \in DOMAIN positions |-> Layer("stop", r, positions[j])]

\* What one drawRoutes call pushes to routeLayers: for each route its stop
\* markers, then the delivery path and the return path.
RECURSIVE PushedLayers(_, _)
PushedLayers(routes, pts) ==
    IF routes = <<>> THEN <<>>
    ELSE StopMarkers(Head(routes), pts)
         \o <<Layer("delivery", Head(routes), 0), Layer("return", Head(routes), 0)>>
         \o PushedLayers(Tail(routes), pts)

\* The arrow decorators one drawRoutes call adds to the map, one for each
\* route when the decorator plugin is loaded; they are not pushed to
\* routeLayers.
ArrowLayers(routes) ==
    IF polylineDecorator
    THEN [i \in DOMAIN routes |-> Layer("arrows", routes[i], 0)]
    ELSE <<>>

\* Every layer one drawRoutes call adds to the map.
AddedLayers(routes, pts) ==
    SeqToBag(PushedLayers(routes, pts)) (+) SeqToBag(ArrowLayers(routes))

\* MapService.clearRoutes: every layer of routeLayers is removed from the
\* map and the list is emptied.
MapClearRoutes ==
    /\ mapLayers' = mapLayers (-) SeqToBag(routeLayers)
    /\ routeLayers' = <<>>

\* MapService.drawRoutes: clearRoutes, then the layers of the routes.
DrawRoutes(routes, pts) ==
    /\ mapLayers' = (mapLayers (-) SeqToBag(routeLayers)) (+) AddedLayers(routes, pts)
    /\ routeLayers' = PushedLayers(routes, pts)

\* Layers on the map that routeLayers does not hold.
StrayLayers == mapLayers (-) SeqToBag(routeLayers)

\* Layers that may be on the map without routeLayers holding them when
\* drawRoutes is called.
MaxStrayLayers == 2

(***************************************************************************)
(* Dashboard: plan generation (App.generatePlan, APIService).              *)
(***************************************************************************)
\* Optimize requests that may be in flight at once.
MaxInflight == 2
\* Timeouts of earlier hideLoader calls that may be still to fire when
\* hideLoader is called again (each fires 300 ms after its call).
MaxStaleTimeouts == 1

\* hideLoader is called while fewer than MaxStaleTimeouts unnamed timeouts
\* are still to fire.
WithinStaleBound(l) == l.hideTimeout => l.staleTimeouts < MaxStaleTimeouts

\* generatePlan without its first line: the request is issued whatever
\* store.points holds.
GeneratePlanUnguarded(numTrucksField) ==
    /\ Len(inflight) < MaxInflight
    /\ loader' = ShowLoader(loader)
    /\ inflight' = Append(inflight,
                      [orders |-> points,
                       num_trucks |-> GetNumTrucks(numTrucksField)])
    /\ lastRequest' = [orders |-> points, num_trucks |-> GetNumTrucks(numTrucksField)]
    /\ UNCHANGED <<envVars, resetVars, healthVars, solverVars, editVars, optResult, lsOptResult,
                   layerVars, warning, toast>>

\* App.generatePlan up to `await APIService.optimizeRoutes(...)`.
GeneratePlan(numTrucksField) ==
    IF Len(points) = 0
    THEN /\ toast' = ToastAddPointsFirst
         /\ UNCHANGED <<envVars, resetVars, healthVars, solverVars, editVars, planVars, warning>>
    ELSE /\ Len(inflight) < MaxInflight
         /\ loader' = ShowLoader(loader)
         /\ inflight' = Append(inflight,
                           [orders |-> points,
                            num_trucks |-> GetNumTrucks(numTrucksField)])
         /\ lastRequest' = [orders |-> points, num_trucks |-> GetNumTrucks(numTrucksField)]
         /\ UNCHANGED <<envVars, resetVars, healthVars, solverVars, editVars, optResult, lsOptResult,
                        layerVars, warning, toast>>

\* The service's input validation (design 7): a list of orders and a
\* positive truck count.
ValidRequest(req) ==
    /\ req.orders # <<>>
    /\ req.num_trucks >= 1
    /\ \A i \in DOMAIN req.orders :
          ~IsNaN(req.orders[i].weight_kg) /\ ~IsNull(req.orders[i].weight_kg)

\* The response to a request the service accepted.
Response(req) == Solve(req.orders, req.num_trucks, Capacity, omitEmpty)

\* App.generatePlan after the request resolved with `result`: the try
\* block, the catch block when rendering throws, and the finally block.
PlanResolved(k) ==
    /\ k \in DOMAIN inflight
    /\ ValidRequest(inflight[k])
    /\ BagCardinality(StrayLayers) < MaxStrayLayers
    /\ LET result == Response(inflight[k])
       IN  /\ DrawRoutes(result.routes, points)
           /\ IF RenderTimelineThrows(result)
              THEN /\ toast' = ToastFailed(TypeErrorMessage)
                   /\ UNCHANGED <<optResult, lsOptResult, warning>>
              ELSE /\ warning' = UpdateOverallStats(warning, result)
                   /\ optResult' = result
                   /\ lsOptResult' = <<Stringify(result)>>
                   /\ toast' = ToastComplete
    /\ WithinStaleBound(loader)
    /\ loader' = HideLoader(loader)
    /\ inflight' = Without(inflight, k)
    /\ UNCHANGED <<envVars, resetVars, healthVars, solverVars, editVars, lastRequest>>

\* Why axios rejects a request: the network failed, the service answered
\* with an error status (422 for a request it does not accept), or the
\* timeout of APIService.optimizeRoutes (120000 ms) passed.
TimeoutMessage == "timeout of 120000ms exceeded"

RejectionMessages ==
    {"Network Error", "Request failed with status code 422", TimeoutMessage}

Rejections(req) ==
    {"Network Error", TimeoutMessage}
    \cup (IF ValidRequest(req) THEN {} ELSE {"Request failed with status code 422"})

\* A catch block that also discards the plan on screen.
PlanRejectedClears(k, message) ==
    /\ k \in DOMAIN inflight
    /\ message \in Rejections(inflight[k])
    /\ WithinStaleBound(loader)
    /\ toast' = ToastFailed(message)
    /\ optResult' = Null
    /\ lsOptResult' = <<>>
    /\ loader' = HideLoader(loader)
    /\ inflight' = Without(inflight, k)
    /\ UNCHANGED <<envVars, resetVars, healthVars, solverVars, editVars, layerVars, lastRequest,
                   warning>>

\* App.generatePlan after the request was rejected: the catch block and
\* the finally block.
PlanRejected(k, message) ==
    /\ k \in DOMAIN inflight
    /\ message \in Rejections(inflight[k])
    /\ WithinStaleBound(loader)
    /\ toast' = ToastFailed(message)
    /\ loader' = HideLoader(loader)
    /\ inflight' = Without(inflight, k)
    /\ UNCHANGED <<envVars, resetVars, healthVars, solverVars, editVars, optResult, lsOptResult,
                   layerVars, lastRequest, warning>>

\* The finish callback of hideLoader runs: display:none.  Either the timeout
\* loaderHideTimeout names fires, or one it no longer names.
LoaderFinish ==
    /\ \/ /\ loader.hideTimeout
          /\ loader' = [loader EXCEPT !.display = "none", !.hideTimeout = FALSE]
       \/ /\ loader.staleTimeouts > 0
          /\ loader' = [loader EXCEPT !.display = "none", !.staleTimeouts = @ - 1]
    /\ UNCHANGED <<envVars, resetVars, healthVars, solverVars, editVars, inflight, optResult, lsOptResult,
                   layerVars, lastRequest, warning, toast>>

\* App.clearRoutes.
ClearRoutes ==
    /\ optResult' = Null
    /\ lsOptResult' = <<>>
    /\ MapClearRoutes
    /\ markers' = UpdateMarkers(markers, points)
    /\ warning' = UpdateOverallStats(warning, Null)
    /\ UNCHANGED <<envVars, resetVars, healthVars, solverVars, points, lsDeliveryPoints, isEditMode,
                   pendingCoords, modalStopId, addStopModal, geocoding, inflight, loader,
                   lastRequest, toast>>

(***************************************************************************)
(* Dashboard: weight edits and reset (App, Store).                         *)
(***************************************************************************)
\* Store.updatePointWeight(index, weight), index counted from 0.
UpdatePointWeight(idx, text) ==
    IF idx < Len(points)
    THEN /\ points' = [points EXCEPT ![idx + 1].weight_kg = ToNumber(text)]
         /\ SavePoints
    ELSE UNCHANGED <<points, lsDeliveryPoints>>

\* App.updateWeight: the onchange handler of a weight field of the table.
UpdateWeight(idx, text) ==
    /\ UpdatePointWeight(idx, text)
    /\ UNCHANGED <<envVars, resetVars, healthVars, solverVars, markers, modalVars, geocoding,
                   planVars, warning, toast>>

ToastReset == <<"System Reset", <<>>>>

\* App.resetAll: the action is stored and the confirm modal shown.
ResetAll ==
    /\ pendingAction' = TRUE
    /\ confirmModal' = TRUE
    /\ UNCHANGED <<envVars, healthVars, solverVars, editVars, planVars, warning, toast>>

\* confirmCancel: UIService.hideModal('confirmModal').
ConfirmCancel ==
    /\ confirmModal
    /\ confirmModal' = FALSE
    /\ UNCHANGED <<envVars, pendingAction, healthVars, solverVars, editVars, planVars,
                   warning, toast>>

\* executeConfirmAction without `this.pendingAction = null`.
ExecuteConfirmActionKeepsPending ==
    /\ IF pendingAction
       THEN /\ points' = <<>>
            /\ SavePoints
            /\ optResult' = Null
            /\ lsOptResult' = <<>>
            /\ MapClearRoutes
            /\ markers' = UpdateMarkers(markers, <<>>)
            /\ warning' = UpdateOverallStats(warning, Null)
            /\ toast' = ToastReset
       ELSE UNCHANGED <<pointVars, optResult, lsOptResult, layerVars, warning, toast>>
    /\ confirmModal' = FALSE
    /\ pendingAction' = pendingAction
    /\ UNCHANGED <<envVars, healthVars, solverVars, modalVars, geocoding, inflight, loader,
                   lastRequest>>

\* App.executeConfirmAction: the pending action of resetAll runs, if one is
\* pending.
ExecuteConfirmAction ==
    /\ IF pendingAction
       THEN /\ points' = <<>>
            /\ SavePoints
            /\ optResult' = Null
            /\ lsOptResult' = <<>>
            /\ MapClearRoutes
            /\ markers' = UpdateMarkers(markers, <<>>)
            /\ warning' = UpdateOverallStats(warning, Null)
            /\ toast' = ToastReset
       ELSE UNCHANGED <<pointVars, optResult, lsOptResult, layerVars, warning, toast>>
    /\ confirmModal' = FALSE
    /\ pendingAction' = FALSE
    /\ UNCHANGED <<envVars, healthVars, solverVars, modalVars, geocoding, inflight, loader,
                   lastRequest>>

(***************************************************************************)
(* Dashboard: the health probe (App.startHealthCheck).                     *)
(***************************************************************************)
\* Health probes that may wait for their response at once (checkHealth sets
\* no timeout, the interval issues one every 15 s).
MaxProbes == 2

\* The catch block without classList.remove('online').
MarkOfflineKeepsOnline(classes) == classes \cup {"offline"}

\* classList.add('offline'); classList.remove('online').
MarkOffline(classes) == (classes \cup {"offline"}) \ {"online"}

\* classList.add('online'); classList.remove('offline').
MarkOnline(classes) == (classes \cup {"online"}) \ {"offline"}

\* The interval of startHealthCheck fires: check() issues a probe.  The
\* interval exists once startHealthCheck has run, that is unless App.init
\* failed before it (no probe in flight and none completed).
HealthTick ==
    /\ probes >= 1 \/ lastProbe # "none"
    /\ probes < MaxProbes
    /\ probes' = probes + 1
    /\ UNCHANGED <<envVars, resetVars, dot, lastProbe, solverVars, editVars, planVars,
                   warning, toast>>

\* check() after checkHealth resolved.
ProbeSucceeded ==
    /\ probes > 0
    /\ probes' = probes - 1
    /\ dot' = MarkOnline(dot)
    /\ lastProbe' = "succeeded"
    /\ UNCHANGED <<envVars, resetVars, solverVars, editVars, planVars, warning, toast>>

\* check() after checkHealth rejected.
ProbeFailed ==
    /\ probes > 0
    /\ probes' = probes - 1
    /\ dot' = MarkOffline(dot)
    /\ lastProbe' = "failed"
    /\ UNCHANGED <<envVars, resetVars, solverVars, editVars, planVars, warning, toast>>

(***************************************************************************)
(* Dashboard: a page load (Store constructor, App.init).                   *)
(***************************************************************************)
ToastInitFailed == <<"Critical Error: Failed to initialize application.", <<>>>>

\* The page is loaded again: a new Store reads localStorage, App.init
\* restores the markers and the stored result and starts the health check;
\* requests, timers and probes of the page before are gone.
Reload ==
    /\ points' = LoadPoints(lsDeliveryPoints)
    /\ optResult' = LoadOptResult(lsOptResult)
    /\ markers' = UpdateMarkers(<<>>, points')
    /\ isEditMode' = FALSE
    /\ pendingCoords' = <<>>
    /\ modalStopId' = <<>>
    /\ addStopModal' = FALSE
    /\ geocoding' = <<>>
    /\ inflight' = <<>>
    /\ lastRequest' = Null
    /\ routeLayers' = IF optResult' = Null THEN <<>>
                      ELSE PushedLayers(optResult'.routes, points')
    /\ mapLayers' = IF optResult' = Null THEN EmptyBag
                    ELSE AddedLayers(optResult'.routes, points')
    /\ loader' = LoaderClosed
    /\ pendingAction' = FALSE
    /\ confirmModal' = FALSE
    /\ warning' = UpdateOverallStats([hidden |-> TRUE, count |-> 0], optResult')
    /\ dot' = {}
    /\ lastProbe' = "none"
    /\ IF optResult' # Null /\ RenderTimelineThrows(optResult')
       THEN toast' = ToastInitFailed /\ probes' = 0
       ELSE toast' = NoToast /\ probes' = 1
    /\ UNCHANGED <<envVars, solverVars, lsDeliveryPoints, lsOptResult>>

(***************************************************************************)
(* Initial states.                                                         *)
(***************************************************************************)
SequencerIdle ==
    /\ sGroup = <<>>
    /\ sNN = <<>>
    /\ sTour = <<>>
    /\ sBudget = 0
    /\ sSeqStage = "idle"

SolverIdle ==
    /\ sOrders = <<>>
    /\ sTrucks = 0
    /\ sStage = "idle"
    /\ sSorted = <<>>
    /\ sPart = FillInit(0)
    /\ sResult = Null
    /\ SequencerIdle

\* The dashboard after App.init on a storage that holds the given points
\* and the given result (Null for none): the start-up probe is in flight.
DashboardRestored(pts, res) ==
    /\ points = pts
    /\ lsDeliveryPoints = IF pts = <<>> THEN <<>> ELSE <<StringifyPoints(pts)>>
    /\ markers = UpdateMarkers(<<>>, pts)
    /\ pendingAction = FALSE
    /\ confirmModal = FALSE
    /\ dot = {}
    /\ probes = 1
    /\ lastProbe = "none"
    /\ isEditMode = FALSE
    /\ pendingCoords = <<>>
    /\ modalStopId = <<>>
    /\ addStopModal = FALSE
    /\ geocoding = <<>>
    /\ inflight = <<>>
    /\ lastRequest = Null
    /\ routeLayers = IF res = Null THEN <<>> ELSE PushedLayers(res.routes, pts)
    /\ mapLayers = IF res = Null THEN EmptyBag ELSE AddedLayers(res.routes, pts)
    /\ optResult = res
    /\ lsOptResult = IF res = Null THEN <<>> ELSE <<Stringify(res)>>
    /\ warning = UpdateOverallStats([hidden |-> TRUE, count |-> 0], res)
    /\ loader = LoaderClosed
    /\ toast = NoToast

\* The dashboard after App.init on a storage that holds the given points
\* and no result.
DashboardLoaded(pts) == DashboardRestored(pts, Null)

(***************************************************************************)
(* Spec: the stops of the dashboard, from an empty list, each with the     *)
(* default weight.                                                         *)
(***************************************************************************)
Init ==
    /\ omitEmpty = FALSE
    /\ polylineDecorator = FALSE
    /\ SolverIdle
    /\ DashboardLoaded(<<>>)

Next ==
    \/ ToggleEditMode
    \/ \E loc \in DashLocs : HandleMapClick(loc)
    \/ \E text \in TypedIds \cup {<<>>} : EditModalStopId(text)
    \/ ModalCancel
    \/ ConfirmAddStopModal(<<>>)
    \/ \E id \in TypedIds \cup {<<>>}, loc \in DashLocs :
          AddStopFromFormCached(id, <<>>, loc)
    \/ \E id \in TypedIds \cup {<<>>} : AddStopFromFormGeocode(id, <<>>)
    \/ \E k \in 1..MaxGeocoding, loc \in DashLocs : GeocodeResolved(k, loc)
    \/ \E k \in 1..MaxGeocoding : GeocodeRejected(k)
    \/ AddRandomPoints
    \/ \E idx \in 0..Len(points) : RemoveStop(idx)

Spec == Init /\ [][Next]_vars

(***************************************************************************)
(* PlanSpec: plan generation for a list of points already entered.         *)
(***************************************************************************)
\* The point lists PlanSpec starts from: none, one point of either weight,
\* or a point of the default weight followed by one heavier than a truck,
\* with the ids the map modal proposes.
PlanPointLists ==
    LET one == {<<Point(DefaultMapId(1), l, StopWeight(w))>> :
                   l \in PlanLocs, w \in WeightInputs}
        two == {<<Point(DefaultMapId(1), l, DefaultWeight),
                  Point(DefaultMapId(2), l, StopWeight(w))>> :
                   l \in PlanLocs, w \in WeightInputs \ {<<>>}}
    IN  {<<>>} \cup one \cup two

PlanInit ==
    /\ omitEmpty \in BOOLEAN
    /\ polylineDecorator = FALSE
    /\ SolverIdle
    /\ \E pts \in PlanPointLists : DashboardLoaded(pts)

PlanNext ==
    \/ \E field \in NumTrucksInputs : GeneratePlan(field)
    \/ \E k \in 1..MaxInflight : PlanResolved(k)
    \/ \E k \in 1..MaxInflight, message \in RejectionMessages :
          PlanRejected(k, message)
    \/ ClearRoutes
    \/ LoaderFinish
    \/ \E idx \in 0..Len(points) : RemoveStop(idx)

PlanSpec == PlanInit /\ [][PlanNext]_vars

(***************************************************************************)
(* LoaderSpec: plan generation for one stored point, where only the        *)
(* requests and the loader vary.                                           *)
(***************************************************************************)
LoaderInit ==
    /\ omitEmpty = TRUE
    /\ polylineDecorator = FALSE
    /\ SolverIdle
    /\ DashboardLoaded(<<Point(DefaultMapId(1), <<0, 1>>, DefaultWeight)>>)

LoaderSpec == LoaderInit /\ [][PlanNext]_vars

(***************************************************************************)
(* MapSpec: the stops and their markers, with default ids and weights at   *)
(* one place; the address form has its coordinates already.                *)
(***************************************************************************)
MapNext ==
    \/ ToggleEditMode
    \/ \E loc \in PlanLocs : HandleMapClick(loc)
    \/ ModalCancel
    \/ ConfirmAddStopModal(<<>>)
    \/ \E loc \in PlanLocs : AddStopFromFormCached(<<>>, <<>>, loc)
    \/ AddRandomPoints
    \/ \E idx \in 0..Len(points) : RemoveStop(idx)
    \/ ResetAll
    \/ ConfirmCancel
    \/ ExecuteConfirmAction

MapSpec == Init /\ [][MapNext]_vars

(***************************************************************************)
(* SessionSpec: the page over a storage that holds points and perhaps a    *)
(* plan: health probes, weight edits, new stops, reset, reloads.           *)
(***************************************************************************)
\* Texts of a weight field of the stops table.
TableWeightInputs == {<<>>, <<"2", "0", "0">>}

\* The results a storage may hold beside a point list: none, or the plan
\* generatePlan stored for it with the default truck count.
StoredResults(pts, omit) ==
    LET req == [orders |-> pts, num_trucks |-> DefaultNumTrucks]
    IN  {Null} \cup
        (IF ValidRequest(req) /\ ~RenderTimelineThrows(Solve(pts, DefaultNumTrucks, Capacity, omit))
         THEN {Solve(pts, DefaultNumTrucks, Capacity, omit)} ELSE {})

SessionInit ==
    /\ omitEmpty \in BOOLEAN
    /\ polylineDecorator = FALSE
    /\ SolverIdle
    /\ \E pts \in PlanPointLists : \E res \in StoredResults(pts, omitEmpty) :
          DashboardRestored(pts, res)

SessionNext ==
    \/ HealthTick
    \/ ProbeSucceeded
    \/ ProbeFailed
    \/ \E idx \in 0..Len(points), text \in TableWeightInputs : UpdateWeight(idx, text)
    \/ \E loc \in PlanLocs : AddStopFromFormCached(<<>>, <<>>, loc)
    \/ ResetAll
    \/ ConfirmCancel
    \/ ExecuteConfirmAction
    \/ Reload

SessionSpec == SessionInit /\ [][SessionNext]_vars

(***************************************************************************)
(* StoreSpec: every Store mutation, from an empty storage, with reloads.   *)
(***************************************************************************)
\* Texts of the weight field of the address form: empty, or a weight typed
\* with its unit.
StoreWeightInputs == {<<>>, <<"5", "k", "g">>}

\* Text of a weight field of the stops table (a number input).
StoreTableWeights == {<<"1", "0", "0">>}

\* One plan is generated at a time, and the service answers every request.
StoreNext ==
    \/ \E w \in StoreWeightInputs, loc \in PlanLocs : AddStopFromFormCached(<<>>, w, loc)
    \/ \E idx \in 0..Len(points) : RemoveStop(idx)
    \/ \E idx \in 0..Len(points), text \in StoreTableWeights : UpdateWeight(idx, text)
    \/ ResetAll
    \/ ExecuteConfirmAction
    \/ inflight = <<>> /\ GeneratePlan(<<>>)
    \/ \E k \in 1..MaxInflight : PlanResolved(k)
    \/ \E k \in 1..MaxInflight : PlanRejected(k, "Request failed with status code 422")
    \/ LoaderFinish
    \/ ClearRoutes
    \/ Reload

StoreSpec == Init /\ [][StoreNext]_vars

(***************************************************************************)
(* RouteSpec: the route layers of the map, on a page with or without the   *)
(* arrow decorator plugin, over a storage that holds points and perhaps a  *)
(* plan; one plan is generated at a time, for the default truck count.     *)
(***************************************************************************)
RouteInit ==
    /\ omitEmpty = FALSE
    /\ polylineDecorator \in BOOLEAN
    /\ SolverIdle
    /\ \E pts \in PlanPointLists : \E res \in StoredResults(pts, omitEmpty) :
          DashboardRestored(pts, res)

RouteNext ==
    \/ inflight = <<>> /\ GeneratePlan(<<>>)
    \/ \E k \in 1..MaxInflight : PlanResolved(k)
    \/ \E k \in 1..MaxInflight : PlanRejected(k, "Network Error")
    \/ ClearRoutes
    \/ LoaderFinish
    \/ \E idx \in 0..Len(points) : RemoveStop(idx)
    \/ ResetAll
    \/ ExecuteConfirmAction
    \/ Reload

RouteSpec == RouteInit /\ [][RouteNext]_vars

(***************************************************************************)
(* RaceSpec: plans requested while earlier requests are in flight, for one *)
(* truck or two and for a growing list of stops; the service answers every *)
(* request, in any order.                                                  *)
(***************************************************************************)
\* Texts of the #numTrucks field: empty (two trucks), and "1.5" (one).
RaceTruckInputs == {<<>>, <<"1", ".", "5">>}

RaceInit ==
    /\ omitEmpty = FALSE
    /\ polylineDecorator = FALSE
    /\ SolverIdle
    /\ DashboardLoaded(<<Point(DefaultMapId(1), <<0, 1>>, DefaultWeight)>>)

RaceNext ==
    \/ \E field \in RaceTruckInputs : GeneratePlan(field)
    \/ \E k \in 1..MaxInflight : PlanResolved(k)
    \/ LoaderFinish
    \/ \E loc \in PlanLocs : AddStopFromFormCached(<<>>, <<>>, loc)

RaceSpec == RaceInit /\ [][RaceNext]_vars

(***************************************************************************)
(* SolverSpec: one solver run on an input drawn from the input sets.       *)
(***************************************************************************)
RECURSIVE OrderLists(_)
OrderLists(n) ==
    IF n = 0 THEN {<<>>}
    ELSE OrderLists(n - 1) \cup
         {Append(s, [id |-> OrderId(n), lat |-> l[1], lng |-> l[2], weight_kg |-> w]) :
            s \in {x \in OrderLists(n - 1) : Len(x) = n - 1},
            l \in SolverLocs, w \in SolverWeights}

SolverInit ==
    /\ omitEmpty \in BOOLEAN
    /\ polylineDecorator = FALSE
    /\ sOrders \in OrderLists(MaxOrders)
    /\ sTrucks \in 0..MaxTrucks
    /\ sStage = "input"
    /\ sSorted = <<>>
    /\ sPart = FillInit(0)
    /\ sResult = Null
    /\ SequencerIdle
    /\ DashboardLoaded(<<>>)

\* Input validation (design 7): an empty order list or a non-positive truck
\* count is rejected before any computation, with no result.
SolverReject ==
    /\ sStage = "input"
    /\ ~ValidRequest([orders |-> sOrders, num_trucks |-> sTrucks])
    /\ sStage' = "rejected"
    /\ UNCHANGED <<envVars, resetVars, healthVars, sOrders, sTrucks, sSorted, sPart, sResult, seqVars, editVars,
                   planVars, warning, toast>>

SolverSweep ==
    /\ sStage = "input"
    /\ ValidRequest([orders |-> sOrders, num_trucks |-> sTrucks])
    /\ sSorted' = SweepSort(sOrders)
    /\ sStage' = "swept"
    /\ UNCHANGED <<envVars, resetVars, healthVars, sOrders, sTrucks, sPart, sResult, seqVars, editVars, planVars,
                   warning, toast>>

SolverAssign ==
    /\ sStage = "swept"
    /\ sPart' = Fill(FillInit(sTrucks), sSorted, sTrucks, Capacity)
    /\ sStage' = "assigned"
    /\ UNCHANGED <<envVars, resetVars, healthVars, sOrders, sTrucks, sSorted, sResult, seqVars, editVars, planVars,
                   warning, toast>>

SolverAssemble ==
    /\ sStage = "assigned"
    /\ sResult' = Assemble(Routes(sPart, sTrucks, omitEmpty), sPart.unassigned,
                           sTrucks, Capacity)
    /\ sStage' = "done"
    /\ UNCHANGED <<envVars, resetVars, healthVars, sOrders, sTrucks, sSorted, sPart, seqVars, editVars, planVars,
                   warning, toast>>

SolverNext == SolverReject \/ SolverSweep \/ SolverAssign \/ SolverAssemble

SolverSpec == SolverInit /\ [][SolverNext]_vars

(***************************************************************************)
(* SequencerSpec: the RouteSequencer on one truck's stops.                 *)
(***************************************************************************)
\* Most stops of the truck in SequencerSpec.
MaxStops == 4

\* Grid positions of the stops in SequencerSpec: south-east of the depot,
\* where the nearest-neighbour tour can be improved more than once.
TourLocs == {<<3, -1>>, <<1, -2>>, <<0, -2>>, <<1, -1>>}

RECURSIVE StopLists(_)
StopLists(n) ==
    IF n = 0 THEN {<<>>}
    ELSE StopLists(n - 1) \cup
         {Append(s, [id |-> OrderId(n), lat |-> l[1], lng |-> l[2], weight_kg |-> 0]) :
            s \in {x \in StopLists(n - 1) : Len(x) = n - 1}, l \in TourLocs}

SequencerInit ==
    /\ omitEmpty = FALSE
    /\ polylineDecorator = FALSE
    /\ sOrders = <<>>
    /\ sTrucks = 0
    /\ sStage = "idle"
    /\ sSorted = <<>>
    /\ sPart = FillInit(0)
    /\ sResult = Null
    /\ sGroup \in {s \in StopLists(MaxStops) : Len(s) >= 1}
    /\ sNN = <<>>
    /\ sTour = <<>>
    /\ sBudget = 0
    /\ sSeqStage = "input"
    /\ DashboardLoaded(<<>>)

\* Step 1, construction: the nearest-neighbour tour from the depot.
SequencerConstruct ==
    /\ sSeqStage = "input"
    /\ sNN' = NearestNeighbor(DEPOT, sGroup)
    /\ sTour' = NearestNeighbor(DEPOT, sGroup)
    /\ sBudget' = TwoOptBudget
    /\ sSeqStage' = "constructed"
    /\ UNCHANGED <<envVars, resetVars, healthVars, sOrders, sTrucks, sStage, sSorted, sPart, sResult, sGroup,
                   editVars, planVars, warning, toast>>

\* Step 2, improvement: one accepted reversal.
SequencerImprove ==
    /\ sSeqStage = "constructed"
    /\ sBudget > 0
    /\ Improving(sTour) # {}
    /\ sTour' = TwoOptStep(sTour)
    /\ sBudget' = sBudget - 1
    /\ UNCHANGED <<envVars, resetVars, healthVars, sOrders, sTrucks, sStage, sSorted, sPart, sResult, sGroup,
                   sNN, sSeqStage, editVars, planVars, warning, toast>>

\* Step 2 ends: no improving move exists or the budget is used up.
SequencerFinish ==
    /\ sSeqStage = "constructed"
    /\ sBudget = 0 \/ Improving(sTour) = {}
    /\ sSeqStage' = "done"
    /\ UNCHANGED <<envVars, resetVars, healthVars, sOrders, sTrucks, sStage, sSorted, sPart, sResult, sGroup,
                   sNN, sTour, sBudget, editVars, planVars, warning, toast>>

SequencerNext == SequencerConstruct \/ SequencerImprove \/ SequencerFinish

SequencerSpec == SequencerInit /\ [][SequencerNext]_vars

(***************************************************************************)
(* Dashboard: UIService.updateAnalytics, the utilisation chart.            *)
(***************************************************************************)
\* Number.toFixed(1) of the quotient num / den (den > 0, num >= 0), as a
\* count of tenths: the nearest tenth, halves rounded up.
ToFixed1(num, den) == (20 * num + den) \div (2 * den)

\* A mis-copied variant of the line below: the fleet's total load (the
\* numerator of the KPI above it) in place of the route's own load.
UtilizationFromTotalLoad(res) ==
    LET totalLoad == SumWeights([i \in 1..Len(res.routes) |->
                         [weight_kg |-> res.routes[i].truck_load]])
    IN  [i \in 1..Len(res.routes) |->
            ToFixed1(totalLoad * 100, res.truck_capacity_kg)]

\* data: routes.map(r => ((r.truck_load / truck_capacity_kg) * 100).toFixed(1)),
\* in tenths of a percent.
UtilizationData(res) ==
    [i \in 1..Len(res.routes) |->
        ToFixed1(res.routes[i].truck_load * 100, res.truck_capacity_kg)]

\* scales: { y: { max: 100 } }, in tenths of a percent.
UtilizationAxisMax == 1000

(***************************************************************************)
(* Properties of the solver's result (SolverSpec).                         *)
(***************************************************************************)
RECURSIVE Flatten(_)
Flatten(ss) == IF ss = <<>> THEN <<>> ELSE Head(ss) \o Flatten(Tail(ss))

\* Every stop id of every route, route after route.
RoutedIds(res) == Flatten([i \in 1..Len(res.routes) |-> res.routes[i].stop_sequence])

Count(x, s) == Cardinality({i \in DOMAIN s : s[i] = x})

Range(s) == {s[i] : i \in DOMAIN s}

\* Position of the order with this id in the sweep ordering.
SweepIndex(id) == CHOOSE i \in DOMAIN sSorted : sSorted[i].id = id

OrderIndex(id) == CHOOSE i \in DOMAIN sOrders : sOrders[i].id = id

\* C2 (conservation): in every result each input order id occurs exactly
\* once in the routes' stop sequences and the unassigned orders taken
\* together, and nothing else occurs there.
C2_Conservation ==
    sStage = "done" =>
        LET all == RoutedIds(sResult) \o Ids(sResult.unassigned_orders)
        IN  /\ \A i \in DOMAIN sOrders : Count(sOrders[i].id, all) = 1
            /\ Len(all) = Len(sOrders)

\* A result with two loaded trucks and an unassigned order.
C2_Witness ==
    /\ sStage = "done"
    /\ Cardinality({i \in DOMAIN sResult.routes :
                        sResult.routes[i].stop_sequence # <<>>}) >= 2
    /\ sResult.unassigned_orders # <<>>

\* C3 (capacity): in every result each route's truck_load is the sum of the
\* weights of its orders and is at most truck_capacity_kg, and every bar of
\* the dashboard's utilisation chart is at most the axis maximum of 100 %.
C3_Capacity ==
    sStage = "done" =>
        /\ \A i \in DOMAIN sResult.routes :
              LET r == sResult.routes[i]
              IN  /\ r.truck_load =
                        SumWeights([k \in DOMAIN r.stop_sequence |->
                                      sOrders[OrderIndex(r.stop_sequence[k])]])
                  /\ r.truck_load <= sResult.truck_capacity_kg
        /\ \A i \in DOMAIN sResult.routes :
              UtilizationData(sResult)[i] <= UtilizationAxisMax

\* A result with two loaded trucks, one of them more than half full, and an
\* order left over for lack of room.
C3_Witness ==
    /\ sStage = "done"
    /\ Cardinality({i \in DOMAIN sResult.routes :
                        sResult.routes[i].truck_load > 0}) >= 2
    /\ \E i \in DOMAIN sResult.routes : 2 * sResult.routes[i].truck_load > Capacity
    /\ \E i \in DOMAIN sResult.unassigned_orders :
          sResult.unassigned_orders[i].weight_kg <= Capacity

\* C6 (overflow correctness): an order heavier than truck_capacity_kg is in
\* no route and is among the unassigned orders.
C6_OversizeUnassigned ==
    sStage = "done" =>
        \A i \in DOMAIN sOrders :
            sOrders[i].weight_kg > Capacity =>
                /\ sOrders[i].id \notin Range(RoutedIds(sResult))
                /\ sOrders[i].id \in Range(Ids(sResult.unassigned_orders))

\* An oversize order that is not first in the sweep, met while a truck with
\* room is still open and followed by an order that is placed.
C6_Witness ==
    /\ sStage = "done"
    /\ \E i \in DOMAIN sSorted :
          /\ sSorted[i].weight_kg > Capacity
          /\ i > 1
          /\ \E j \in DOMAIN sSorted :
                j > i /\ sSorted[j].id \in Range(RoutedIds(sResult))

\* C10 (overflow tie-break): every order placed in a route precedes, in the
\* sweep ordering, every order left unassigned for lack of fleet capacity
\* (one that would fit an empty truck), and unassigned_orders is in sweep
\* order.
C10_TrailingDropped ==
    sStage = "done" =>
        LET un == sResult.unassigned_orders
        IN  /\ \A i \in DOMAIN un :
                 un[i].weight_kg <= Capacity =>
                    \A id \in Range(RoutedIds(sResult)) :
                        SweepIndex(id) < SweepIndex(un[i].id)
            /\ \A i, j \in DOMAIN un :
                 i < j => SweepIndex(un[i].id) < SweepIndex(un[j].id)

\* Every truck is used, two orders are left over for lack of room, and the
\* last of them would still have fitted the last truck.
C10_Witness ==
    /\ sStage = "done"
    /\ \A t \in DOMAIN sPart.groups : sPart.groups[t] # <<>>
    /\ Cardinality({i \in DOMAIN sResult.unassigned_orders :
                        sResult.unassigned_orders[i].weight_kg <= Capacity}) >= 2
    /\ LET un == sResult.unassigned_orders
       IN  Fits(sPart.groups[sTrucks], un[Len(un)], Capacity)

(***************************************************************************)
(* Properties of the stop list (Spec).                                     *)
(***************************************************************************)
\* C1 (unique ids): no two entries of store.points have the same id, after
\* any sequence of add-stop and removeStop operations.
C1_UniqueIds ==
    \A i, j \in DOMAIN points : i # j => points[i].id # points[j].id

(***************************************************************************)
(* Properties of plan generation (PlanSpec, LoaderSpec).                   *)
(***************************************************************************)
\* C4 (a well-formed result is not a failure): every step in which
\* generatePlan receives the response to a request stores that response in
\* store.optResult and in localStorage and reports completion.
C4_ResultAccepted ==
    [][\A k \in 1..MaxInflight :
          PlanResolved(k) =>
              /\ optResult' = Response(inflight[k])
              /\ lsOptResult' = <<Stringify(Response(inflight[k]))>>
              /\ toast' = ToastComplete]_vars

\* C5 (unassigned orders stay in view): while the stored result has
\* unassigned orders, the capacity warning is visible and shows their
\* number.
C5_WarningShown ==
    (optResult # Null /\ Len(optResult.unassigned_orders) > 0) =>
        /\ ~warning.hidden
        /\ warning.count = Len(optResult.unassigned_orders)

\* C7 (truck count): the num_trucks of every optimize request is at least 1
\* (GetNumTrucks yields integers only).
C7_PositiveTrucks ==
    \A k \in DOMAIN inflight : inflight[k].num_trucks >= 1

\* C8 (no empty order list): no optimize request carries an empty order
\* list; while store.points is empty no step issues a request or opens the
\* loader, and generatePlan leaves the request list, the loader, the stored
\* result and its localStorage entry as they are.
C8_NoEmptyRequest ==
    /\ [](\A k \in DOMAIN inflight : inflight[k].orders # <<>>)
    /\ [][Len(points) = 0 =>
             /\ Len(inflight') <= Len(inflight)
             /\ (loader'.display = "flex" => loader.display = "flex")
             /\ \A field \in NumTrucksInputs :
                   GeneratePlan(field) =>
                       UNCHANGED <<inflight, loader, optResult, lsOptResult>>]_vars

\* generatePlan was pressed on an empty stop list while a plan was stored:
\* the toast asks for points, the plan is still stored, nothing is in
\* flight and the loader is closed.
C8_Witness ==
    /\ Len(points) = 0
    /\ toast = ToastAddPointsFirst
    /\ optResult # Null
    /\ lsOptResult = <<Stringify(optResult)>>
    /\ inflight = <<>>
    /\ loader.display = "none"

\* C9 (failed request): the step in which a request is rejected (an error
\* or the 120000 ms timeout) leaves store.optResult and the localStorage
\* entry as they were, reports the failure with its message, and takes the
\* request off the list of requests in flight without adding one.
C9_FailureKeepsResult ==
    [][\A k \in 1..MaxInflight, message \in RejectionMessages :
          PlanRejected(k, message) =>
              /\ UNCHANGED <<optResult, lsOptResult>>
              /\ toast' = ToastFailed(message)
              /\ inflight' = Without(inflight, k)]_vars

\* A request timed out while a plan with a loaded route was stored: the
\* plan is still stored and nothing is in flight.
C9_Witness ==
    /\ toast = ToastFailed(TimeoutMessage)
    /\ optResult # Null
    /\ \E i \in DOMAIN optResult.routes : optResult.routes[i].stop_sequence # <<>>
    /\ lsOptResult = <<Stringify(optResult)>>
    /\ inflight = <<>>

(***************************************************************************)
(* Properties of the solver's degenerate and concrete cases (SolverSpec).  *)
(***************************************************************************)
\* The request is two orders on opposite bearings from the depot, each of
\* which fits a truck alone, for a fleet of two.
TwoOppositeOrders ==
    /\ Len(sOrders) = 2
    /\ sTrucks = 2
    /\ Pos(sOrders[1]) # DEPOT
    /\ Pos(sOrders[2]) = <<2 * DEPOT[1] - sOrders[1].lat, 2 * DEPOT[2] - sOrders[1].lng>>
    /\ \A i \in 1..2 : sOrders[i].weight_kg <= Capacity

\* C11 (two opposite orders): for two orders on opposite bearings, two
\* trucks and a capacity that fits each order alone, the two orders are in
\* the stop sequences of two different routes, one each, and no order is
\* unassigned.
C11_OneOrderEach ==
    (sStage = "done" /\ TwoOppositeOrders) =>
        /\ sResult.unassigned_orders = <<>>
        /\ \A i \in DOMAIN sResult.routes : Len(sResult.routes[i].stop_sequence) <= 1
        /\ Len(RoutedIds(sResult)) = 2

\* C12 (zero orders): a request with no orders and a positive truck count
\* is not rejected, and its result has no stop in any route and no
\* unassigned order.
C12_ZeroOrdersEmptyResult ==
    (sOrders = <<>> /\ sTrucks >= 1 /\ sStage # "input") =>
        /\ sStage # "rejected"
        /\ sStage = "done" =>
              /\ RoutedIds(sResult) = <<>>
              /\ sResult.unassigned_orders = <<>>

(***************************************************************************)
(* Properties of the RouteSequencer (SequencerSpec).                       *)
(***************************************************************************)
\* C13 (monotonic improvement): every accepted reversal strictly reduces
\* the tour length; the tour is never longer than the nearest-neighbour
\* tour and visits exactly the truck's stops; and improvement ends only when
\* no improving reversal exists or the budget is used up.
C13_MonotonicImprovement ==
    /\ [][sTour' # sTour /\ sSeqStage = "constructed" =>
             TourLength(sTour') < TourLength(sTour)]_vars
    /\ [](sSeqStage \in {"constructed", "done"} =>
             /\ TourLength(sTour) <= TourLength(sNN)
             /\ Len(sTour) = Len(sGroup)
             /\ \A i \in DOMAIN sGroup : Count(sGroup[i], sTour) = 1)
    /\ [](sSeqStage = "done" => (Improving(sTour) = {} \/ sBudget = 0))

\* A tour that was shortened by a reversal and could be shortened again,
\* left as it is because the budget is used up.
C13_Witness ==
    /\ sSeqStage = "done"
    /\ TourLength(sTour) < TourLength(sNN)
    /\ Improving(sTour) # {}
    /\ sBudget = 0

(***************************************************************************)
(* C14: the status dot reports the health probe.                           *)
(***************************************************************************)
\* The classes the dot carries after a probe that ended as `outcome`.
ReportedClasses(outcome) ==
    IF outcome = "succeeded" THEN {"online"} ELSE {"offline"}

\* C14: a probe is in flight from start-up until the first probe completes
\* and the interval issues further ones; the status dot never carries both
\* 'online' and 'offline'; when a probe completes the dot carries 'online'
\* if it succeeded and 'offline' if it failed, and it keeps the class of the
\* probe that completed last.
C14_DotReportsProbe ==
    /\ [](~({"online", "offline"} \subseteq dot))
    /\ [](lastProbe = "none" /\ toast # ToastInitFailed => probes >= 1)
    /\ [](lastProbe # "none" => dot = ReportedClasses(lastProbe))
    /\ [][probes' = probes - 1 /\ lastProbe' # "none" =>
             dot' = ReportedClasses(lastProbe')]_vars

\* A probe failed after one that succeeded, while a later one is in flight.
C14_Witness ==
    /\ lastProbe = "failed"
    /\ dot = {"offline"}
    /\ probes = 1
    /\ toast = NoToast

(***************************************************************************)
(* C15: showLoader cancels every pending hide.                             *)
(***************************************************************************)
\* C15: once showLoader has been called the overlay stays displayed until
\* the next hideLoader call: while showLoader is the loader call made last
\* (its interval is running) the overlay is displayed, and no finish
\* callback of an earlier hideLoader sets it to display:none.
C15_ShownUntilHide ==
    /\ [](loader.interval => loader.display = "flex")
    /\ [][loader.interval /\ loader'.interval => loader'.display = "flex"]_vars

(***************************************************************************)
(* C16: one text-cycling interval.                                         *)
(***************************************************************************)
\* C16: after any sequence of showLoader and hideLoader calls at most one
\* text-cycling interval is active, the one loaderInterval names, and none
\* is active once hideLoader was the call made last.
C16_OneInterval ==
    /\ loader.intervals <= 1
    /\ loader.interval <=> loader.intervals = 1
    /\ ~loader.interval => loader.intervals = 0

\* showLoader was called twice with no hideLoader between.
C16_Witness ==
    /\ Len(inflight) >= 2
    /\ loader.interval
    /\ loader.intervals = 1
    /\ loader.staleTimeouts = 0
    /\ ~loader.hideTimeout

(***************************************************************************)
(* C17: markers mirror the point list.                                     *)
(***************************************************************************)
PointIds == {points[i].id : i \in DOMAIN points}

C18_ResetGated ==
    /\ [][~pendingAction /\ pendingAction' =>
             UNCHANGED <<points, optResult, lsDeliveryPoints, lsOptResult>>]_vars
    /\ [][(points # <<>> /\ points' = <<>>) \/ (optResult # Null /\ optResult' = Null) =>
             pendingAction /\ ~pendingAction']_vars
    /\ [][ExecuteConfirmAction /\ pendingAction =>
             /\ points' = <<>>
             /\ optResult' = Null
             /\ LoadPoints(lsDeliveryPoints') = <<>>
             /\ LoadOptResult(lsOptResult') = Null
             /\ ~pendingAction']_vars
    /\ [][ExecuteConfirmAction /\ ~pendingAction =>
             UNCHANGED <<points, optResult, lsDeliveryPoints, lsOptResult>>]_vars

\* A reset was confirmed and a stop added afterwards is still there, with
\* no action pending.
C18_Witness ==
    /\ toast = ToastReset
    /\ Len(points) = 1
    /\ optResult = Null
    /\ lsOptResult = <<>>
    /\ ~pendingAction
    /\ ~confirmModal

(***************************************************************************)
(* C20: persistence round trip.                                            *)
(***************************************************************************)
\* C20: after every Store mutation a Store constructed on localStorage
\* loads the point list and the result that are in memory, and
\* updatePointWeight with an index that addresses no point changes neither
\* the points nor their stored text.
C20_RoundTrip ==
    /\ [](LoadPoints(lsDeliveryPoints) = points)
    /\ [](LoadOptResult(lsOptResult) = optResult)
    /\ [][(\E text \in StoreTableWeights : UpdateWeight(Len(points), text)) =>
             UNCHANGED <<points, lsDeliveryPoints>>]_vars


(***************************************************************************)
(* C22: the loader and the requests in flight.                             *)
(***************************************************************************)
\* C22: the loading overlay tracks the optimize requests in flight: while a
\* request is in flight the overlay is displayed, and a step that opens it
\* is a generatePlan call that issues a request.
C22_LoaderTracksRequests ==
    /\ [](inflight # <<>> => loader.display = "flex")
    /\ [][loader.display = "none" /\ loader'.display = "flex" =>
             Len(inflight') = Len(inflight) + 1]_vars


(***************************************************************************)
(* C21: the route layers of the map.                                       *)
(***************************************************************************)
\* C21: route layers never accumulate: after clearRoutes (of the Clear
\* button or of a confirmed reset) no layer that drawRoutes added is on the
\* map, and after generatePlan has drawn a response the map holds the
\* layers of that response and no other.
C21_NoStaleLayers ==
    /\ [][ClearRoutes => mapLayers' = EmptyBag]_vars
    /\ [][ExecuteConfirmAction /\ pendingAction => mapLayers' = EmptyBag]_vars
    /\ [][\A k \in 1..MaxInflight :
             PlanResolved(k) =>
                mapLayers' = AddedLayers(Response(inflight[k]).routes, points)]_vars


(***************************************************************************)
(* C23: responses that arrive out of order.                                *)
(***************************************************************************)
\* C23: when the response that leaves no request in flight has been
\* handled, store.optResult is the response to the request generatePlan
\* issued last, and the layers of routeLayers are those of its routes.
C23_LatestRequestWins ==
    [][\A k \in 1..MaxInflight :
          PlanResolved(k) /\ inflight' = <<>> =>
             /\ optResult' = Response(lastRequest)
             /\ LoadOptResult(lsOptResult') = Response(lastRequest)
             /\ routeLayers' = PushedLayers(Response(lastRequest).routes, points)]_vars

====
